---- MODULE Spec2Model ----
(***************************************************************************)
(* Model of rust-rgb's 4-channel pixel types (src/internal/rgba.rs).       *)
(*                                                                         *)
(* Storage is a flat heap of channel cells.  A Vec of NPix 4-channel       *)
(* pixels occupies cells VecPtr .. VecPtr + 4*NPix - 1; a pixel is the     *)
(* address of its first cell.  The raw-pointer views of the source         *)
(* (as_slice, as_mut_slice, rgb_mut) are (pointer, length) pairs into the  *)
(* heap, so aliasing and copying are distinguishable in the model.         *)
(***************************************************************************)
EXTENDS Integers, Sequences, FiniteSets, TLC

\* ---- bounds -------------------------------------------------------------
NPix == 2
MaxChan == 1
MaxNonZero == 1
MaxWrites == 2

\* ---- types and layout ---------------------------------------------------
Variants == {"RGBA", "BGRA"}
Types == {"u8", "i32"}
Names == {"r", "g", "b", "a"}
ColorNames == {"r", "g", "b"}
Null == -1

size_of(t) == IF t = "u8" THEN 1 ELSE 4

\* channel values of type t used as inputs: unsigned for u8, from -1 up for i32
Values(t) == IF t = "u8" THEN 0..MaxChan ELSE (0 - 1)..MaxChan

\* declared field order of the 4-channel structs
FieldOrder(v) == IF v = "RGBA" THEN <<"r", "g", "b", "a">> ELSE <<"b", "g", "r", "a">>

\* the 3-channel companion of each 4-channel struct: impl_rgba!{RGBA, RGB}, impl_rgba!{BGRA, BGR}
Companion(v) == IF v = "RGBA" THEN "RGB" ELSE "BGR"

\* declared field order of the 3-channel structs
FieldOrder3(c) == IF c = "RGB" THEN <<"r", "g", "b">> ELSE <<"b", "g", "r">>

\* offset, in channel cells, of a named field within a struct of the given field order
offset_of(order, n) == (CHOOSE k \in 1..Len(order) : order[k] = n) - 1

\* address of pixel i (0-based) of the Vec
VecPtr == 0
PxAddr(i) == VecPtr + 4 * i
\* stack slot that holds the 3-channel value returned by rgb()
CopySlot == VecPtr + 4 * NPix
HeapSize == CopySlot + 3
Addr == 0..(HeapSize - 1)
PixIdx == 0..(NPix - 1)

\* place expressions self.r, self.g, ... of a 4-channel and of a 3-channel struct at address p
Field(h, p, v, n) == h[p + offset_of(FieldOrder(v), n)]
Field3(h, p, c, n) == h[p + offset_of(FieldOrder3(c), n)]

\* the 4-channel value stored at p, as a record of its named fields
Load(h, p, v) == [n \in Names |-> Field(h, p, v, n)]
\* the 3-channel value stored at p
Load3(h, p, c) == [n \in ColorNames |-> Field3(h, p, c, n)]
\* move a 3-channel value into storage at p
Store3(h, p, c, val) ==
  [x \in DOMAIN h |->
     IF \E n \in ColorNames : x = p + offset_of(FieldOrder3(c), n)
     THEN val[CHOOSE n \in ColorNames : x = p + offset_of(FieldOrder3(c), n)]
     ELSE h[x]]

\* ---- closures passed to map / map_rgb, and From impls for alpha ----------
FnNames == {"neg", "add3", "seven"}
Apply(f, x) == CASE f = "neg" -> 0 - x
                 [] f = "add3" -> x + 3
                 [] f = "seven" -> 7
FromImpls == {"same", "shifted"}
\* B::from(a): "same" is a value-preserving conversion (From<T> for T, From<u8> for i16),
\* "shifted" a user-defined From impl
From(c, a) == IF c = "same" THEN a ELSE a + 100

\* ---- the operations of rgba.rs -------------------------------------------
\* RGBA::new
new(r, g, b, a) == [r |-> r, g |-> g, b |-> b, a |-> a]

\* slices are (pointer, length) pairs; reading one dereferences the heap
SliceRead(h, s) == [k \in 1..s.len |-> h[s.ptr + k - 1]]

\* as_slice with the length of the 3-channel struct
as_slice_3(self) == [ptr |-> self, len |-> 3]
\* $RGBA::as_slice
as_slice(self) == [ptr |-> self, len |-> 4]
\* as_mut_slice starting one channel late
as_mut_slice_off(self) == [ptr |-> self + 1, len |-> 4]
\* $RGBA::as_mut_slice
as_mut_slice(self) == [ptr |-> self, len |-> 4]
\* slice view whose length is the pixel count, not the channel count
seq_as_slice_short(ptr, n) == [ptr |-> ptr, len |-> n]
\* [$RGBA]::as_slice
seq_as_slice(ptr, n) == [ptr |-> ptr, len |-> n * 4]
\* $RGBA::rgb: clones the three color fields into a new 3-channel value
rgb(h, self, v) ==
  [r |-> Field(h, self, v, "r"), g |-> Field(h, self, v, "g"), b |-> Field(h, self, v, "b")]

\* rgb_mut pointing one channel into the struct
rgb_mut_off(self) == self + 1
\* $RGBA::rgb_mut: the same address, retyped as the 3-channel companion
rgb_mut(self) == self

\* map that copies alpha instead of transforming it
map_keep_alpha(h, self, v, f) ==
  [r |-> Apply(f, Field(h, self, v, "r")),
   g |-> Apply(f, Field(h, self, v, "g")),
   b |-> Apply(f, Field(h, self, v, "b")),
   a |-> Field(h, self, v, "a")]
\* ComponentMap for $RGBA
map(h, self, v, f) ==
  [r |-> Apply(f, Field(h, self, v, "r")),
   g |-> Apply(f, Field(h, self, v, "g")),
   b |-> Apply(f, Field(h, self, v, "b")),
   a |-> Apply(f, Field(h, self, v, "a"))]

\* ComponentMap for $RGB and $RGB::new_alpha (3-channel side)
rgb_map(c, f) == [r |-> Apply(f, c.r), g |-> Apply(f, c.g), b |-> Apply(f, c.b)]
new_alpha(c, a) == [r |-> c.r, g |-> c.g, b |-> c.b, a |-> a]

\* map_rgb that also runs the closure on alpha before converting it
map_rgb_all(h, self, v, f, conv) ==
  new_alpha(rgb_map(rgb(h, self, v), f), From(conv, Apply(f, Field(h, self, v, "a"))))
\* $RGBA::map_rgb
map_rgb(h, self, v, f, conv) ==
  new_alpha(rgb_map(rgb(h, self, v), f), From(conv, Field(h, self, v, "a")))

\* $RGBA::iter: the value's slice, element by element, cloned
iter(h, self) == SliceRead(h, as_slice(self))

\* Iterator::next on a cloned slice iterator: the item, if any, and the advanced iterator
iter_next(it) ==
  IF it = <<>> THEN [some |-> FALSE, it |-> it]
  ELSE [some |-> TRUE, val |-> Head(it), it |-> Tail(it)]

\* Option::unwrap on None unwinds: no value is produced
Panicked(it) == [ok |-> FALSE, it |-> it]

\* from_iter that fills the fields in the order a, r, g, b
from_iter_rot(into_iter) ==
  LET n1 == iter_next(into_iter) IN
  IF ~n1.some THEN Panicked(n1.it) ELSE
  LET n2 == iter_next(n1.it) IN
  IF ~n2.some THEN Panicked(n2.it) ELSE
  LET n3 == iter_next(n2.it) IN
  IF ~n3.some THEN Panicked(n3.it) ELSE
  LET n4 == iter_next(n3.it) IN
  IF ~n4.some THEN Panicked(n4.it) ELSE
  [ok |-> TRUE, val |-> [a |-> n1.val, r |-> n2.val, g |-> n3.val, b |-> n4.val], it |-> n4.it]

\* from_iter that substitutes 0 for a missing item instead of unwrapping
from_iter_lenient(into_iter) ==
  LET n1 == iter_next(into_iter)
      n2 == iter_next(n1.it)
      n3 == iter_next(n2.it)
      n4 == iter_next(n3.it)
      get(n) == IF n.some THEN n.val ELSE 0
  IN [ok |-> TRUE, val |-> [r |-> get(n1), g |-> get(n2), b |-> get(n3), a |-> get(n4)],
      it |-> n4.it]

\* FromIterator for RGBA: four next().unwrap() in the order r, g, b, a
from_iter(into_iter) ==
  LET n1 == iter_next(into_iter) IN
  IF ~n1.some THEN Panicked(n1.it) ELSE
  LET n2 == iter_next(n1.it) IN
  IF ~n2.some THEN Panicked(n2.it) ELSE
  LET n3 == iter_next(n2.it) IN
  IF ~n3.some THEN Panicked(n3.it) ELSE
  LET n4 == iter_next(n3.it) IN
  IF ~n4.some THEN Panicked(n4.it) ELSE
  [ok |-> TRUE, val |-> [r |-> n1.val, g |-> n2.val, b |-> n3.val, a |-> n4.val], it |-> n4.it]

\* ---- derived comparison (struct declarations) -----------------------------
\* the fields of the value at p, in declared order
FieldSeq(h, p, v) == [k \in 1..4 |-> Field(h, p, v, FieldOrder(v)[k])]

\* comparison of the 16-bit unsigned bit patterns
chan_lt_unsigned(x, y) == (x % 65536) < (y % 65536)
\* T::lt of the channel type: integers compare by value
chan_lt(x, y) == x < y

RECURSIVE lex_lt(_, _)
\* #[derive(PartialOrd)]: the first unequal field decides
lex_lt(x, y) ==
  IF x = <<>> THEN FALSE
  ELSE IF Head(x) # Head(y) THEN chan_lt(Head(x), Head(y))
  ELSE lex_lt(Tail(x), Tail(y))

\* $RGBA < $RGBA
lt(h, p, q, v) == lex_lt(FieldSeq(h, p, v), FieldSeq(h, q, v))

\* ---- byte view (ComponentBytes) -------------------------------------------
Endians == {"le", "be"}

RECURSIVE Pow256(_)
Pow256(n) == IF n = 0 THEN 1 ELSE 256 * Pow256(n - 1)

\* the in-memory bytes of one channel value: two's complement (floor division
\* sign-extends), size_of(t) bytes
to_bytes(x, t, e) ==
  LET s == size_of(t)
  IN [j \in 1..s |->
        LET d == IF e = "le" THEN j - 1 ELSE s - j IN (x \div Pow256(d)) % 256]

\* ComponentBytes::as_bytes: the channel slice reinterpreted as len * size_of(t) bytes
as_bytes(h, sl, t, e) ==
  LET s == size_of(t) IN
  [k \in 1..(sl.len * s) |->
     to_bytes(h[sl.ptr + ((k - 1) \div s)], t, e)[((k - 1) % s) + 1]]

\* ---- state ----------------------------------------------------------------
VARIABLES
  variant,  \* which 4-channel struct the Vec holds
  T,        \* its channel type
  heap,     \* channel cells: the Vec's buffer, then the slot of the rgb() copy
  view,     \* the live &mut $RGB returned by rgb_mut(): its address and the pixel it borrows
  rgbv,     \* address of the live 3-channel value returned by rgb(), or Null
  writes,   \* number of channel writes so far; a run starts no call after MaxWrites writes
  op,       \* the last operation and its arguments
  out       \* the value the last operation returned

vars == <<variant, T, heap, view, rgbv, writes, op, out>>

NoView == [ptr |-> Null, px |-> Null]
NoOut == [none |-> TRUE]

\* heap whose Vec holds the pixel values pxs[0], pxs[1], ... of struct v
HeapOf(v, pxs) ==
  [x \in Addr |->
     IF x < CopySlot THEN pxs[(x - VecPtr) \div 4][FieldOrder(v)[((x - VecPtr) % 4) + 1]] ELSE 0]

Zero == new(0, 0, 0, 0)

\* vec![new(1,2,3,4), new(5,6,7,8), ...] in declared field order (rgba_test, bgra_test)
RampPx(v, i) == [n \in Names |-> 4 * i + offset_of(FieldOrder(v), n) + 1]

\* RGBA::new(1,2,3,1000), its negation, and zeros (rgba_test, bgra_test)
TestPxs == {[i \in PixIdx |-> IF i = 0 THEN new(1, 2, 3, 1000) ELSE Zero],
            [i \in PixIdx |-> IF i = 0 THEN new(-1, -2, -3, -1000) ELSE Zero]}

PixCells == VecPtr..(CopySlot - 1)

\* Vec buffers with at most MaxNonZero non-zero channels
SparseHeaps(t) ==
  UNION { { [x \in Addr |-> IF x \in S THEN g[x] ELSE 0] : g \in [S -> Values(t) \ {0}] } :
          S \in {S \in SUBSET PixCells : Cardinality(S) <= MaxNonZero} }

Inputs(v, t) ==
  SparseHeaps(t) \cup {HeapOf(v, [i \in PixIdx |-> RampPx(v, i)])}
    \cup (IF t = "i32" THEN {HeapOf(v, pxs) : pxs \in TestPxs} ELSE {})

\* ---- aliasing machine: writes through views, copies ------------------------
Init ==
  /\ variant \in Variants
  /\ T \in Types
  /\ heap = HeapOf(variant, [i \in PixIdx |-> RampPx(variant, i)])
  /\ view = NoView
  /\ rgbv = Null
  /\ writes = 0
  /\ op = [name |-> "init"]
  /\ out = NoOut

\* px.as_mut_slice()[k] = x
AsMutSliceWrite(i, k, x) ==
  LET s == as_mut_slice(PxAddr(i)) IN
  /\ view = NoView
  /\ writes < MaxWrites
  /\ k < s.len
  /\ heap' = [heap EXCEPT ![s.ptr + k] = x]
  /\ writes' = writes + 1
  /\ op' = [name |-> "as_mut_slice", i |-> i, k |-> k, x |-> x]
  /\ UNCHANGED <<variant, T, view, rgbv, out>>

\* let c = px.rgb_mut();  the exclusive borrow starts
RgbMut(i) ==
  /\ view = NoView
  /\ writes < MaxWrites
  /\ view' = [ptr |-> rgb_mut(PxAddr(i)), px |-> i]
  /\ op' = [name |-> "rgb_mut", i |-> i]
  /\ UNCHANGED <<variant, T, heap, rgbv, writes, out>>

\* c.n = x  through the live view
ViewWrite(n, x) ==
  /\ view # NoView
  /\ writes < MaxWrites
  /\ heap' = [heap EXCEPT ![view.ptr + offset_of(FieldOrder3(Companion(variant)), n)] = x]
  /\ writes' = writes + 1
  /\ op' = [name |-> "view_write", i |-> view.px, n |-> n, x |-> x]
  /\ UNCHANGED <<variant, T, view, rgbv, out>>

\* the borrow ends
ViewDrop ==
  /\ view # NoView
  /\ view' = NoView
  /\ op' = [name |-> "view_drop"]
  /\ UNCHANGED <<variant, T, heap, rgbv, writes, out>>

\* rgb() that hands out the pixel's own storage
Rgb_alias(i) ==
  /\ view = NoView
  /\ rgbv = Null
  /\ writes < MaxWrites
  /\ rgbv' = PxAddr(i)
  /\ op' = [name |-> "rgb", i |-> i]
  /\ UNCHANGED <<variant, T, heap, view, writes, out>>

\* let mut c = px.rgb();  the returned value is moved into its own slot (one binding)
Rgb(i) ==
  /\ view = NoView
  /\ rgbv = Null
  /\ writes < MaxWrites
  /\ heap' = Store3(heap, CopySlot, Companion(variant), rgb(heap, PxAddr(i), variant))
  /\ rgbv' = CopySlot
  /\ op' = [name |-> "rgb", i |-> i]
  /\ UNCHANGED <<variant, T, view, writes, out>>

\* c.n = x  on the value returned by rgb()
CopyWrite(n, x) ==
  /\ rgbv # Null
  /\ writes < MaxWrites
  /\ heap' = [heap EXCEPT ![rgbv + offset_of(FieldOrder3(Companion(variant)), n)] = x]
  /\ writes' = writes + 1
  /\ op' = [name |-> "copy_write", n |-> n, x |-> x]
  /\ UNCHANGED <<variant, T, view, rgbv, out>>

Next ==
  \/ \E i \in PixIdx, k \in 0..3, x \in Values(T) : AsMutSliceWrite(i, k, x)
  \/ \E i \in PixIdx : RgbMut(i)
  \/ \E n \in ColorNames, x \in Values(T) : ViewWrite(n, x)
  \/ ViewDrop
  \/ \E i \in PixIdx : Rgb(i)
  \/ \E n \in ColorNames, x \in Values(T) : CopyWrite(n, x)

Spec == Init /\ [][Next]_vars

\* ---- pure operations applied to drawn inputs -------------------------------
InitPure ==
  /\ variant \in Variants
  /\ T \in Types
  /\ heap \in Inputs(variant, T)
  /\ view = NoView
  /\ rgbv = Null
  /\ writes = 0
  /\ op = [name |-> "init"]
  /\ out = NoOut

\* px.as_slice()
AsSlice(i) ==
  /\ op' = [name |-> "as_slice", i |-> i]
  /\ out' = [seq |-> SliceRead(heap, as_slice(PxAddr(i)))]
  /\ UNCHANGED <<variant, T, heap, view, rgbv, writes>>

\* v[..n].as_slice()
SeqAsSlice(n) ==
  /\ op' = [name |-> "seq_as_slice", n |-> n]
  /\ out' = [seq |-> SliceRead(heap, seq_as_slice(VecPtr, n))]
  /\ UNCHANGED <<variant, T, heap, view, rgbv, writes>>

\* v[..n].as_bytes() on a platform of byte order e
AsBytes(n, e) ==
  /\ op' = [name |-> "as_bytes", n |-> n, e |-> e]
  /\ out' = [seq |-> as_bytes(heap, seq_as_slice(VecPtr, n), T, e)]
  /\ UNCHANGED <<variant, T, heap, view, rgbv, writes>>

\* px.map(f)
Map(i, f) ==
  /\ op' = [name |-> "map", i |-> i, f |-> f]
  /\ out' = [val |-> map(heap, PxAddr(i), variant, f)]
  /\ UNCHANGED <<variant, T, heap, view, rgbv, writes>>

\* px.map_rgb(f) with alpha converted by the From impl conv
MapRgb(i, f, conv) ==
  /\ op' = [name |-> "map_rgb", i |-> i, f |-> f, conv |-> conv]
  /\ out' = [val |-> map_rgb(heap, PxAddr(i), variant, f, conv)]
  /\ UNCHANGED <<variant, T, heap, view, rgbv, writes>>

\* px.iter().collect::<RGBA<_>>()
Collect(i) ==
  /\ op' = [name |-> "collect", i |-> i, it |-> iter(heap, PxAddr(i))]
  /\ out' = from_iter(iter(heap, PxAddr(i)))
  /\ UNCHANGED <<variant, T, heap, view, rgbv, writes>>

\* RGBA::from_iter over the n channels that start at pixel i
FromIter(i, n) ==
  LET it == SliceRead(heap, [ptr |-> PxAddr(i), len |-> n]) IN
  /\ op' = [name |-> "from_iter", i |-> i, it |-> it]
  /\ out' = from_iter(it)
  /\ UNCHANGED <<variant, T, heap, view, rgbv, writes>>

\* v[i] < v[j]
Lt(i, j) ==
  /\ op' = [name |-> "lt", i |-> i, j |-> j]
  /\ out' = [b |-> lt(heap, PxAddr(i), PxAddr(j), variant)]
  /\ UNCHANGED <<variant, T, heap, view, rgbv, writes>>

NextPure ==
  \/ \E i \in PixIdx : AsSlice(i)
  \/ \E n \in 0..NPix : SeqAsSlice(n)
  \/ \E n \in 0..NPix, e \in Endians : AsBytes(n, e)
  \/ \E i \in PixIdx, f \in FnNames : Map(i, f)
  \/ \E i \in PixIdx, f \in FnNames, conv \in FromImpls : MapRgb(i, f, conv)
  \/ \E i \in PixIdx : Collect(i)
  \/ \E i \in PixIdx : \E n \in 0..(4 * (NPix - i)) : FromIter(i, n)
  \/ \E i \in PixIdx, j \in PixIdx : Lt(i, j)

SpecPure == InitPure /\ [][NextPure]_vars

\* ---- properties -----------------------------------------------------------
\* the 4-channel value of pixel i, and its fields listed in declared order
Px(i) == Load(heap, PxAddr(i), variant)
Declared(px) ==
  IF variant = "RGBA" THEN <<px.r, px.g, px.b, px.a>> ELSE <<px.b, px.g, px.r, px.a>>
Companion3 == Companion(variant)

\* C1: collecting the channels of an RGBA value's as_slice() back into an RGBA
\* (from_iter) yields a value equal to the original.
C1_RoundTrip ==
  (variant = "RGBA" /\ op.name = "collect") =>
    (out.ok /\ out.val = Px(op.i))

C1_Witness ==
  /\ variant = "RGBA" /\ op.name = "collect" /\ op.i = 1
  /\ out.ok /\ out.val = new(5, 6, 7, 8)

C2_ViewReads ==
  view # NoView =>
    \A n \in ColorNames :
      Field3(heap, view.ptr, Companion3, n) = Field(heap, PxAddr(view.px), variant, n)

C2_ViewWrites ==
  op'.name = "view_write" =>
    /\ view' = view
    /\ Field(heap', PxAddr(view.px), variant, op'.n) = op'.x
    /\ \A n \in Names \ {op'.n} :
         Field(heap', PxAddr(view.px), variant, n) = Field(heap, PxAddr(view.px), variant, n)

\* C2: while the view returned by rgb_mut() is live, each color channel read
\* through it is the original's field of that name; a write through it sets the
\* original's field of that name to the written value and leaves the original's
\* alpha and the other two color fields unchanged.
C2_RgbMut == [](C2_ViewReads) /\ [][C2_ViewWrites]_vars

C2_Witness ==
  /\ op.name = "view_write" /\ writes >= 2 /\ view # NoView
  /\ op.n = "b" /\ Px(view.px).b = op.x
  /\ Px(view.px).b # RampPx(variant, view.px).b
  /\ Px(view.px).a = RampPx(variant, view.px).a

\* C3: for single-byte channels, as_bytes() of N pixels has N*4 bytes and byte
\* 4*i+k is the k-th declared field of pixel i.
C3_AsBytes ==
  (T = "u8" /\ op.name = "as_bytes") =>
    /\ Len(out.seq) = op.n * 4
    /\ \A i \in 0..(op.n - 1) : \A k \in 0..3 :
         out.seq[4 * i + k + 1] = Declared(Px(i))[k + 1]

C3_Witness ==
  /\ T = "u8" /\ op.name = "as_bytes" /\ op.n = 2
  /\ out.seq = <<1, 2, 3, 4, 5, 6, 7, 8>>

C4_Channelwise ==
  op.name = "map" =>
    /\ DOMAIN out.val = Names
    /\ \A n \in Names : out.val[n] = Apply(op.f, Px(op.i)[n])

\* C4: map(f) returns a value whose every field, alpha included, is f of the
\* source's field of the same name, and leaves the source unchanged.
C4_Map == [](C4_Channelwise) /\ [][op'.name = "map" => heap' = heap]_vars

C4_Witness ==
  /\ op.name = "map" /\ op.f = "neg" /\ op.i = 0
  /\ Px(0) = new(1, 2, 3, 1000)
  /\ out.val = new(-1, -2, -3, -1000)

\* C5: map_rgb(f) returns r, g, b equal to f of the source's r, g, b and an
\* alpha that is the From conversion of the source alpha, the same for every f.
C5_MapRgb ==
  op.name = "map_rgb" =>
    /\ DOMAIN out.val = Names
    /\ \A n \in ColorNames : out.val[n] = Apply(op.f, Px(op.i)[n])
    /\ out.val.a = From(op.conv, Px(op.i).a)
    /\ \A f2 \in FnNames :
         map_rgb(heap, PxAddr(op.i), variant, f2, op.conv).a = out.val.a

C5_Witness ==
  /\ variant = "RGBA" /\ T = "u8" /\ op.name = "map_rgb"
  /\ op.f = "neg" /\ op.conv = "same" /\ op.i = 0
  /\ out.val.r = -1 /\ out.val.a = 4

C6_Step ==
  /\ op'.name = "rgb" =>
       /\ rgbv' # Null
       /\ Load3(heap', rgbv', Companion3) =
            [r |-> Px(op'.i).r, g |-> Px(op'.i).g, b |-> Px(op'.i).b]
       /\ \A x \in PixCells : heap'[x] = heap[x]
  /\ op'.name = "copy_write" =>
       /\ Load3(heap', rgbv, Companion3)[op'.n] = op'.x
       /\ \A x \in PixCells : heap'[x] = heap[x]
  /\ (op'.name \in {"as_mut_slice", "view_write"} /\ rgbv # Null) =>
       Load3(heap', rgbv, Companion3) = Load3(heap, rgbv, Companion3)

\* C6: rgb() returns the 3-channel value built from the source's r, g, b,
\* whatever its alpha; the result is a copy: writes to it leave every pixel
\* unchanged and writes to the pixels leave it unchanged.
C6_Rgb == [][C6_Step]_vars

C6_Witness ==
  /\ op.name = "copy_write" /\ rgbv # Null
  /\ \A i \in PixIdx : Load3(heap, rgbv, Companion3) # rgb(heap, PxAddr(i), variant)
  /\ \A i \in PixIdx : Px(i) = RampPx(variant, i)

\* C7: from_iter takes exactly the first four items as r, g, b, a and leaves
\* the rest of the iterator unconsumed; with fewer than four items it panics.
C7_FromIter ==
  op.name = "from_iter" =>
    IF Len(op.it) < 4
    THEN ~out.ok
    ELSE /\ out.ok
         /\ out.val = new(op.it[1], op.it[2], op.it[3], op.it[4])
         /\ out.it = SubSeq(op.it, 5, Len(op.it))

C7_Witness ==
  /\ op.name = "from_iter" /\ Len(op.it) = 3 /\ op.it # <<0, 0, 0>>
  /\ ~out.ok

C9_AsSlice ==
  /\ op.name = "as_slice" =>
       /\ Len(out.seq) = 4
       /\ out.seq = Declared(Px(op.i))
  /\ op.name = "seq_as_slice" =>
       /\ Len(out.seq) = 4 * op.n
       /\ \A i \in 0..(op.n - 1) : \A k \in 1..4 :
            out.seq[4 * i + k] = Declared(Px(i))[k]

C9_Witness ==
  /\ variant = "BGRA" /\ op.name = "as_slice" /\ op.i = 0
  /\ Px(0) = new(-1, -2, -3, -1000)
  /\ out.seq = <<-3, -2, -1, -1000>>

C10_Views ==
  \A i \in PixIdx :
    /\ SliceRead(heap, as_slice(PxAddr(i))) = Declared(Px(i))
    /\ \A n \in ColorNames :
         Field3(heap, rgb_mut(PxAddr(i)), Companion3, n) = Px(i)[n]

C10_Write ==
  op'.name = "as_mut_slice" =>
    LET n == FieldOrder(variant)[op'.k + 1] IN
    /\ Load(heap', PxAddr(op'.i), variant) = [Px(op'.i) EXCEPT ![n] = op'.x]
    /\ (op'.k = 3 => n = "a")

\* C10: a write to index k of as_mut_slice() changes exactly the k-th declared
\* field of the value (index 3 is alpha); in every state reached by
\* interleaved writes through as_mut_slice() and rgb_mut(), as_slice() and
\* rgb_mut() read the value's current fields.
C10_AsMutSlice == [](C10_Views) /\ [][C10_Write]_vars

C10_Witness ==
  /\ op.name = "as_mut_slice" /\ op.k = 3 /\ writes >= 2
  /\ Px(op.i).a = op.x /\ op.x # RampPx(variant, op.i).a
  /\ \E n \in ColorNames : Px(op.i)[n] # RampPx(variant, op.i)[n]

====
